---- MODULE Spec2Model ----
(***************************************************************************)
(* Measurement-Network: job dispatch, result correlation, worker liveness  *)
(* and the bounded JSON result store.                                       *)
(*                                                                         *)
(*   management-api/src/storage.js   JSONStorage (the bounded store)       *)
(*   management-api/src/index.js     ManagementAPI (dispatcher, correlator)*)
(*   modules/*/src/index.js          PingModule, DNSModule, HTTPModule     *)
(*   anchor-service/src/index.js     AnchorService (registry, liveness)    *)
(*                                                                         *)
(* The management API, the anchor service and every worker module are      *)
(* separate processes. Each is modelled by its own group of variables and  *)
(* actions; a specification below runs one process (or the pipeline of      *)
(* processes a job passes through) while the other groups stay at their    *)
(* initial values.                                                          *)
(***************************************************************************)
EXTENDS Integers, Sequences, FiniteSets, TLC

VARIABLES
  \* ---- JSONStorage: the ./data directory
  initPc,       \* position of init(), which the constructor calls without
                \* awaiting it: "mkdir" | "access" | "write" | "done"
  files,        \* file name -> parsed content (a sequence of records); a name
                \* outside the domain: no such file, or a file that does not parse
  exportPc,     \* exportToFile in progress: "idle" | "write"
  exportData,   \* exportToFile: the data loadAll returned
  exportName,   \* exportToFile: the filename argument
  lastReturn,   \* value returned by the last completed storage call
  nextMeasId,   \* next fresh _id (meas_<Date.now()>_<random>)
  stats,        \* the value the last getStats call returned
  saves,        \* the saveMeasurement calls between their call and their return,
                \* in call order: [result, pc: "read" | "write", data]
  \* ---- history variables of the store (not program state)
  appended,     \* every record a saveMeasurement that returned true wrote, newest first
  saveCount,    \* jobId -> number of saveMeasurement calls that returned true
  saveCalls,    \* number of saveMeasurement calls made in this run
  recentAtRead, \* what getRecent(1000) returns at the moment the export in progress read the log
  exportedAs,   \* export file -> recentAtRead of the export that wrote it
  \* ---- AnchorService
  anchorPc,     \* position of start(): "connect" | "listening" | "monitoring"
  modules,      \* this.modules: worker name -> WorkerRecord
  now,          \* Date.now() of the anchor's host, in ms
  nextSweep,    \* when the setInterval of startHealthMonitoring fires next
  sweeps,       \* history: number of sweeps run
  \* ---- ManagementAPI
  entry,        \* the file the process was started from
  mgmtPc,       \* position of the process: "load" (the statements of the module)
                \* | "crashed", and of start(): "connect" | "serving" | "failed"
  natsConnection, \* this.natsConnection: "null" | "open"
  jobResults,   \* this.jobResults
  resultInbox,  \* messages the subscription mmn.jobs.result.> holds for the listener
  lstnPc,       \* result listener: "next" (awaiting a message) | "saving"
  lstnResult,   \* result listener: const result of the iteration in progress
  broadcasts,   \* results sent through broadcastToWebSocket, in order
  responses,    \* responses of POST /api/jobs, in order
  \* ---- worker modules
  subscribed,   \* the worker instances running with an open subscription
  wPc,          \* worker -> "idle" (awaiting a message) | "executing"
  wInbox,       \* worker -> messages its subscription mmn.jobs.submit holds
  wJob,         \* worker -> the job being processed
  wStart,       \* worker -> position of start(): "off" (not deployed) | "connecting"
                \* | "waiting" (for the retry timer) | "running"
  busUp,        \* whether the NATS server accepts connections
  \* ---- history variable of the workers (not program state)
  announcedAt,  \* worker -> time of its last announcement, -1 when it has made none
  \* ---- history variables of the pipeline (not program state)
  submitted,    \* jobs published on mmn.jobs.submit, in order
  received,     \* results the listener has taken from its subscription, in order
  processed,    \* worker -> [job, outcome, published, topics]: the jobs it
                \* processed, in order, each with the way its measurement ended,
                \* the results published for it and the subjects they went to
  dropped       \* subscriber -> the messages its loop took and left alone, in
                \* order (a worker, or the result listener of the management API)

storeVars == <<initPc, files, exportPc, exportData, exportName, lastReturn, nextMeasId, stats,
              saves>>
storeHist == <<appended, saveCount, saveCalls, recentAtRead, exportedAs>>

anchorVars == <<anchorPc, modules, now, nextSweep, sweeps>>

mgmtVars == <<entry, mgmtPc, natsConnection, jobResults, resultInbox, lstnPc, lstnResult,
              broadcasts, responses>>
startVars == <<wStart, busUp, announcedAt>>
workerVars == <<subscribed, wPc, wInbox, wJob, startVars>>
pipeHist == <<submitted, received, processed, dropped>>

vars == <<storeVars, storeHist, anchorVars, mgmtVars, workerVars, pipeHist>>

(***************************************************************************)
(* Bounds of the model                                                      *)
(***************************************************************************)
MaxAppends == 3     \* saveMeasurement calls per run of the store specification
MaxTicks == 10      \* clock ticks per run of the anchor specification
MaxSubmits == 2     \* POST /api/jobs requests per run of the pipeline
PrefillSlack == 2   \* a persisted log starts empty or within this many records of the cap

JobIds == {"j1", "j2"}
Kinds == {"ping", "dns", "http"}

(***************************************************************************)
(* Helpers on sequences                                                     *)
(***************************************************************************)
Min(a, b) == IF a < b THEN a ELSE b

\* Array.prototype.slice(0, n) for n >= 0
Slice0(s, n) == SubSeq(s, 1, Min(Len(s), n))

\* Array.prototype.unshift(x)
Unshift(s, x) == <<x>> \o s

(***************************************************************************)
(* JSONStorage (management-api/src/storage.js)                              *)
(***************************************************************************)
resultsFile == "measurements.json"

\* names an export may be given that differ from the log's own file
ExportNames == {"measurements_export_1.json"}

\* the cap of saveMeasurement: data.slice(0, 1000)
MaxRecords == 1000

NoData == <<>>

\* loadAll: the parsed content of measurements.json; [] when the file cannot
\* be read or parsed (the catch of loadAll)
loadAll(fs, readOk) ==
  IF readOk /\ resultsFile \in DOMAIN fs THEN fs[resultsFile] ELSE NoData

\* the record saveMeasurement builds: the result's own fields plus the store's
\* metadata (_persisted, _id; _savedAt is a wall-clock string and is left out)
MeasurementSummary(result, id) ==
  [persisted |-> TRUE, measId |-> id]
    @@ [result EXCEPT !.result = [success |-> result.result.success]]
Measurement(result, id) ==
  [persisted |-> TRUE, measId |-> id] @@ result

\* the payload of a stored record: the record without the store's metadata
Payload(m) == [f \in (DOMAIN m) \ {"persisted", "measId"} |-> m[f]]

\* fs.writeFile(path, text) opens the file for writing, which empties it, and
\* then writes the text: it succeeds ("ok"), fails before the file is opened
\* ("refused": the file is as it was), or fails after ("partial": the file
\* is left without its old content and without the whole of the new one)
WriteOutcomes == {"ok", "refused", "partial"}

writeFile(fs, name, content, written) ==
  CASE written = "ok" -> (name :> content) @@ fs
    [] written = "refused" -> fs
    [] OTHER -> [f \in (DOMAIN fs) \ {name} |-> fs[f]]

\* saveMeasurement(result): the new content of the directory and the value
\* returned. readOk and written are the outcomes of fs.readFile and
\* fs.writeFile.
SaveTruncateNone(data) == data
SaveTruncate(data) == Slice0(data, MaxRecords)

SaveInsertDedup(data, m) ==
  Unshift(SelectSeq(data, LAMBDA x : x.jobId # m.jobId), m)
SaveInsert(data, m) == Unshift(data, m)

saveMeasurement(fs, result, id, readOk, written) ==
  LET data == loadAll(fs, readOk)
      measurement == Measurement(result, id)
      trimmedData == SaveTruncate(SaveInsert(data, measurement))
  IN  [fs |-> writeFile(fs, resultsFile, trimmedData, written),
       ret |-> written = "ok"]

\* getRecent(limit)
getRecent(fs, limit, readOk) == Slice0(loadAll(fs, readOk), limit)

\* getByType(type, limit)
getByType(fs, type, limit, readOk) ==
  Slice0(SelectSeq(loadAll(fs, readOk), LAMBDA x : x.type = type), limit)

\* getByJobId(jobId): data.find(item => item.jobId === jobId), the first
\* record of that job or undefined. The value returned is tagged with what
\* it is: "object" (one record, held in items) or "undefined"
getByJobId(fs, jobId, readOk) ==
  LET data == loadAll(fs, readOk)
      found == {i \in 1..Len(data) : data[i].jobId = jobId}
  IN  IF found = {}
        THEN [kind |-> "undefined", items |-> <<>>]
        ELSE [kind |-> "object",
              items |-> <<data[CHOOSE i \in found : \A k \in found : i <= k]>>]

\* limits a query is called with; 50 and 100 are the defaults of getByType
\* and getRecent
QueryLimits == {0, 1, 50, 100}

\* job ids a query is called with: one of the log's and one of no record
QueryJobIds == {"j0", "j1", "j9"}

\* getStats: item.result?.success
SucceededAlways(item) == TRUE
Succeeded(item) == item.result.success

\* (successful / data.length * 100).toFixed(2), in hundredths of a percent;
\* 0 for an empty log
successRate(successful, length) ==
  IF length > 0 THEN (2 * successful * 10000 + length) \div (2 * length) ELSE 0

\* getStats(): total, per type the number of records and of successful
\* records, the success rate, and the timestamps of the last and first record
getStats(fs, readOk) ==
  LET data == loadAll(fs, readOk)
      types == {data[i].type : i \in 1..Len(data)}
      successful == Cardinality({i \in 1..Len(data) : Succeeded(data[i])})
  IN  [total |-> Len(data),
       byType |-> [t \in types |->
                    [count |-> Cardinality({i \in 1..Len(data) : data[i].type = t}),
                     success |-> Cardinality({i \in 1..Len(data) :
                                                data[i].type = t /\ Succeeded(data[i])})]],
       successRate |-> successRate(successful, Len(data)),
       oldest |-> IF data = <<>> THEN "null" ELSE data[Len(data)].timestamp,
       newest |-> IF data = <<>> THEN "null" ELSE data[1].timestamp]

\* no getStats call made yet
NoStats ==
  [total |-> 0, byType |-> <<>>, successRate |-> 0, oldest |-> "null", newest |-> "null"]

\* exportToFile(filename), first half: const data = await this.loadAll()
ExportContentDefaultLimit(data) == Slice0(data, 100)
ExportContent(data) == data

(***************************************************************************)
(* A persisted log left by an earlier run of the process: n records,        *)
(* newest first, with the ids meas 1..n.                                    *)
(***************************************************************************)
OldResult ==
  [jobId |-> "j0", type |-> "ping", target |-> "8.8.8.8", timestamp |-> "measured",
   status |-> "completed",
   result |-> [success |-> TRUE, message |-> "Ping successful"]]

Prefill(n) == [i \in 1..n |-> Measurement(OldResult, n + 1 - i)]

PrefillLens == {0} \cup ((MaxRecords - PrefillSlack)..MaxRecords)

\* results a worker can publish, as far as the store reads them
StoreResults ==
  { [jobId |-> "j1", type |-> "ping", target |-> "8.8.8.8", timestamp |-> "measured",
     status |-> "completed",
     result |-> [success |-> TRUE, message |-> "Ping successful"]],
    [jobId |-> "j2", type |-> "dns", target |-> "8.8.8.8", timestamp |-> "measured",
     status |-> "completed",
     result |-> [success |-> FALSE, errorCode |-> "DOMAIN_NOT_FOUND"]] }

SavesOf(count, j) == IF j \in DOMAIN count THEN count[j] ELSE 0

InitStoreWith(n) ==
  /\ initPc = "done"
  /\ files = (resultsFile :> Prefill(n))
  /\ exportPc = "idle"
  /\ exportData = NoData
  /\ exportName = "none"
  /\ lastReturn = "none"
  /\ nextMeasId = n + 1
  /\ stats = NoStats
  /\ saves = <<>>
  /\ appended = Prefill(n)
  /\ saveCount = <<>>
  /\ saveCalls = 0
  /\ recentAtRead = NoData
  /\ exportedAs = <<>>

\* the store after init() has run, on a data directory a previous run may
\* have filled
InitStoreFiles == \E n \in PrefillLens : InitStoreWith(n)

\* one call of saveMeasurement(result), from loadAll to the return
DoSave(result, readOk, written) ==
  /\ saveCalls' = saveCalls + 1
  /\ LET r == saveMeasurement(files, result, nextMeasId, readOk, written)
     IN  /\ files' = r.fs
         /\ lastReturn' = IF r.ret THEN "true" ELSE "false"
         /\ nextMeasId' = nextMeasId + 1
         /\ appended' = IF r.ret
                          THEN Unshift(appended, Measurement(result, nextMeasId))
                          ELSE appended
         /\ saveCount' = IF r.ret
                           THEN (result.jobId :> SavesOf(saveCount, result.jobId) + 1)
                                  @@ saveCount
                           ELSE saveCount
  /\ UNCHANGED <<initPc, exportPc, exportData, exportName, stats, saves, recentAtRead,
                 exportedAs>>

SaveMeasurement(result, readOk, written) ==
  /\ saveCalls < MaxAppends
  /\ DoSave(result, readOk, written)

\* exportToFile(filename) up to its await of fs.writeFile
ExportRead(filename, readOk) ==
  /\ exportPc = "idle"
  /\ exportPc' = "write"
  /\ exportData' = ExportContent(loadAll(files, readOk))
  /\ exportName' = filename
  /\ recentAtRead' = getRecent(files, MaxRecords, TRUE)
  /\ UNCHANGED <<initPc, files, lastReturn, nextMeasId, stats, saves, appended, saveCount, saveCalls,
                 exportedAs>>

\* exportToFile: fs.writeFile(exportPath, ...) and the return
ExportWrite(written) ==
  /\ exportPc = "write"
  /\ exportPc' = "idle"
  /\ files' = writeFile(files, exportName, exportData, written)
  /\ IF written = "ok"
       THEN /\ lastReturn' = exportName
            /\ exportedAs' = (exportName :> recentAtRead) @@ exportedAs
       ELSE /\ lastReturn' = "null"
            /\ UNCHANGED exportedAs
  /\ UNCHANGED <<initPc, exportData, exportName, nextMeasId, stats, saves, appended, saveCount,
                 saveCalls, recentAtRead>>

\* saveMeasurement(result) step by step. The call: loadAll has asked for the
\* file and awaits fs.readFile.
SaveCall(result) ==
  /\ saves' = Append(saves, [result |-> result, pc |-> "read", data |-> NoData])
  /\ UNCHANGED <<initPc, files, exportPc, exportData, exportName, lastReturn, nextMeasId, stats,
                 storeHist>>

\* fs.readFile has returned: the record is built and put at the head, the
\* array is cut, and the call awaits fs.writeFile
SaveRead(i, readOk) ==
  /\ i \in 1..Len(saves)
  /\ saves[i].pc = "read"
  /\ LET data == loadAll(files, readOk)
         measurement == Measurement(saves[i].result, nextMeasId)
         trimmedData == SaveTruncate(SaveInsert(data, measurement))
     IN  saves' = [saves EXCEPT ![i] = [@ EXCEPT !.pc = "write", !.data = trimmedData]]
  /\ nextMeasId' = nextMeasId + 1
  /\ UNCHANGED <<initPc, files, exportPc, exportData, exportName, lastReturn, stats, storeHist>>

Remove(s, i) == SubSeq(s, 1, i - 1) \o SubSeq(s, i + 1, Len(s))

\* fs.writeFile has returned, and saveMeasurement returns
SaveWrite(i, written) ==
  /\ i \in 1..Len(saves)
  /\ saves[i].pc = "write"
  /\ files' = writeFile(files, resultsFile, saves[i].data, written)
  /\ lastReturn' = IF written = "ok" THEN "true" ELSE "false"
  /\ saves' = Remove(saves, i)
  /\ saveCalls' = saveCalls + 1
  /\ appended' = IF written = "ok" THEN Unshift(appended, Head(saves[i].data))
                                    ELSE appended
  /\ saveCount' = IF written = "ok"
                    THEN (saves[i].result.jobId
                            :> SavesOf(saveCount, saves[i].result.jobId) + 1) @@ saveCount
                    ELSE saveCount
  /\ UNCHANGED <<initPc, exportPc, exportData, exportName, nextMeasId, stats, recentAtRead,
                 exportedAs>>

\* init(): await fs.access(this.resultsFile) resolves when the file is there
\* and rejects when it is not
accessAlwaysRejects(fs) == FALSE
access(fs) == resultsFile \in DOMAIN fs

\* the data directory is there once mkdir has returned, or when it holds a file
DirExists == initPc # "mkdir" \/ DOMAIN files # {}

\* init(): await fs.mkdir(this.storageDir, {recursive: true}) has returned
InitMkdir ==
  /\ initPc = "mkdir"
  /\ initPc' = "access"
  /\ UNCHANGED <<files, exportPc, exportData, exportName, lastReturn, nextMeasId, stats,
                 saves, storeHist>>

\* init(): await fs.access(this.resultsFile) has settled; when it rejected,
\* the catch has called fs.writeFile
InitAccess ==
  /\ initPc = "access"
  /\ initPc' = IF access(files) THEN "done" ELSE "write"
  /\ UNCHANGED <<files, exportPc, exportData, exportName, lastReturn, nextMeasId, stats,
                 saves, storeHist>>

\* init(): await fs.writeFile(this.resultsFile, JSON.stringify([], null, 2))
\* has returned
InitWrite ==
  /\ initPc = "write"
  /\ files' = writeFile(files, resultsFile, NoData, "ok")
  /\ initPc' = "done"
  /\ UNCHANGED <<exportPc, exportData, exportName, lastReturn, nextMeasId, stats,
                 saves, storeHist>>

\* one call of getStats()
GetStats(readOk) ==
  /\ stats' = getStats(files, readOk)
  /\ UNCHANGED <<initPc, files, exportPc, exportData, exportName, lastReturn, nextMeasId, saves,
                 storeHist>>

(***************************************************************************)
(* AnchorService (anchor-service/src/index.js)                              *)
(***************************************************************************)
\* the names the worker modules announce themselves under
ModuleNames == {"ping-module", "dns-module", "http-module"}

ModuleType(name) ==
  CASE name = "ping-module" -> "ping"
    [] name = "dns-module" -> "dns"
    [] OTHER -> "http"

\* the announcement a module publishes on mmn.modules.announce
\* (timestamp: the Date.now() of its publication)
Announcement(name, t) ==
  [name |-> name, type |-> ModuleType(name), version |-> "1.0.0", timestamp |-> t]

\* startHealthMonitoring: if (now - module.lastSeen > 30000)
LivenessWindowMs == 30000
\* startHealthMonitoring: setInterval(..., 10000)
SweepIntervalMs == 10000
\* the clock of the model advances in half sweep intervals
TickMs == SweepIntervalMs \div 2

IsStaleAtWindow(t, lastSeen) == t - lastSeen >= LivenessWindowMs
IsStale(t, lastSeen) == t - lastSeen > LivenessWindowMs

\* handleModuleAnnouncement: this.modules.set(moduleInfo.name,
\* {...moduleInfo, lastSeen: Date.now(), healthy: true, ...})
handleModuleAnnouncementOnce(mods, moduleInfo, t) ==
  (moduleInfo.name :>
     ([lastSeen |-> IF moduleInfo.name \in DOMAIN mods
                      THEN mods[moduleInfo.name].lastSeen ELSE t,
       healthy |-> TRUE] @@ moduleInfo)) @@ mods
handleModuleAnnouncement(mods, moduleInfo, t) ==
  (moduleInfo.name :>
     ([lastSeen |-> t, healthy |-> TRUE] @@ moduleInfo)) @@ mods

\* module.healthy = false
DemoteAndReset(module) == [module EXCEPT !.healthy = FALSE, !.lastSeen = 0]
Demote(module) == [module EXCEPT !.healthy = FALSE]

\* the callback of setInterval in startHealthMonitoring
healthSweepEvict(mods, t) ==
  [n \in {m \in DOMAIN mods : ~IsStale(t, mods[m].lastSeen)} |-> mods[n]]
healthSweep(mods, t) ==
  [n \in DOMAIN mods |->
     IF IsStale(t, mods[n].lastSeen)
       THEN Demote(mods[n])
       ELSE mods[n]]

InitAnchor ==
  /\ anchorPc = "connect"
  /\ modules = <<>>
  /\ now = 0
  /\ nextSweep = 0
  /\ sweeps = 0

\* startHealthMonitoring (and the rest of start()): the interval is armed
StartHealthMonitoring ==
  /\ anchorPc' = "monitoring"
  /\ nextSweep' = now + SweepIntervalMs

\* connectToNATS: await connect(...); on success the subscription is opened
\* and start() stays inside `for await (const msg of sub)`; on failure the
\* catch logs and start() goes on to startHealthMonitoring
AnchorConnect(ok) ==
  /\ anchorPc = "connect"
  /\ IF ok
       THEN anchorPc' = "listening" /\ UNCHANGED nextSweep
       ELSE StartHealthMonitoring
  /\ UNCHANGED <<modules, now, sweeps>>

\* one iteration of the for-await loop of connectToNATS on a well-formed
\* announcement
AnchorReceive(name) ==
  /\ anchorPc = "listening"
  /\ modules' = handleModuleAnnouncement(modules, Announcement(name, now), now)
  /\ UNCHANGED <<anchorPc, now, nextSweep, sweeps>>

\* the loop of connectToNATS ends: JSON.parse or handleModuleAnnouncement
\* throws on a malformed message (the catch of connectToNATS), or the
\* subscription is closed with the connection; start() goes on
AnchorLoopEnds ==
  /\ anchorPc = "listening"
  /\ StartHealthMonitoring
  /\ UNCHANGED <<modules, now, sweeps>>

\* the interval callback of startHealthMonitoring
AnchorSweep ==
  /\ anchorPc = "monitoring"
  /\ now >= nextSweep
  /\ modules' = healthSweep(modules, now)
  /\ nextSweep' = nextSweep + SweepIntervalMs
  /\ sweeps' = sweeps + 1
  /\ UNCHANGED <<anchorPc, now>>

\* time passes; a due interval callback runs before the clock moves on
Tick ==
  /\ now < MaxTicks * TickMs
  /\ anchorPc = "monitoring" => now < nextSweep
  /\ now' = now + TickMs
  /\ UNCHANGED <<anchorPc, modules, nextSweep, sweeps>>

(***************************************************************************)
(* Worker modules (modules/ping-module, modules/http-module)                *)
(***************************************************************************)
\* the worker instances: one ping module, one DNS module, two HTTP modules
Workers == {"ping-1", "dns-1", "http-1", "http-2"}

\* the type a module processes: if (job.type === 'ping') ...
WorkerKind(w) ==
  CASE w = "ping-1" -> "ping"
    [] w = "dns-1" -> "dns"
    [] OTHER -> "http"

\* subscribe('mmn.jobs.submit', { queue: 'ping-workers' | 'dns-workers' |
\* 'http-workers' }): the queue group of a worker's subscription
QueueGroupPerInstance(w) == w
QueueGroup(w) == WorkerKind(w)

\* the subscriber of mmn.jobs.result.* in the management API
Listener == "management-api"

\* the worker processes running together in one deployment
Deployments == { {"ping-1", "dns-1"}, {"http-1", "http-2"} }

\* the queue groups with a subscribed member, and the members of a group
QueueGroups(subs) == {QueueGroup(w) : w \in subs}
Members(subs, g) == {w \in subs : QueueGroup(w) = g}

\* the bus delivers a message on mmn.jobs.submit to one member of every queue
\* group that has a subscriber: a delivery is the set of receiving workers
Deliveries(subs) ==
  {d \in SUBSET subs :
     \A g \in QueueGroups(subs) : Cardinality(d \cap Members(subs, g)) = 1}

Deliver(inbox, d, msg) ==
  [w \in Workers |-> IF w \in d THEN Append(inbox[w], msg) ELSE inbox[w]]

\* a property that is missing from an object (undefined): JSON.stringify
\* leaves such a property out of the message
Undefined == "undefined"

Field(r, f) == IF f \in DOMAIN r THEN r[f] ELSE Undefined

\* JSON.parse(JSON.stringify(object)) on the objects of the model: type and
\* target come from the request body and may be missing
toJSON(r) ==
  [f \in {g \in DOMAIN r : ~(g \in {"type", "target"} /\ r[g] = Undefined)} |-> r[f]]

\* no job in hand, no Result in hand
NoJob ==
  [id |-> "none", type |-> "none", target |-> "none", timestamp |-> "none",
   status |-> "none"]
NoResult ==
  [jobId |-> "none", type |-> "none", target |-> "none", timestamp |-> "none",
   status |-> "none", result |-> [success |-> FALSE]]

\* cleanTarget of the module of this kind: the ping and http targets of the
\* model are left as they are, the DNS module also strips a leading www.
cleanTarget(kind, target) ==
  IF kind = "dns" /\ target = "www.example.com" THEN "example.com" ELSE target

\* DNSModule.isValidDomain and HTTPModule.normalizeUrl (# null) on the targets
\* of the model
isValidDomain(domain) == domain \notin {Undefined, ""}
normalizeUrl(target) == IF target \in {Undefined, ""} THEN "null" ELSE target

\* what the network does to a measurement: "ok", or the way it fails
PingCauses == {"ok", "no_reply", "ENOTFOUND", "ENETUNREACH", "ETIMEDOUT", "EOTHER"}
DNSCauses ==
  {"ok", "ENOTFOUND", "ETIMEOUT", "ECONNREFUSED", "ESERVFAIL", "ENODATA",
   "EBADRESP", "nocode"}
HTTPCauses ==
  {"ok", "status_4xx", "timeout", "ENOTFOUND", "ECONNREFUSED", "ETIMEDOUT",
   "CERT_HAS_EXPIRED", "SELF_SIGNED_CERT", "UNABLE_TO_VERIFY_LEAF_SIGNATURE",
   "HPE_INVALID_VERSION", "ECONNRESET", "nocode"}

Causes(kind) ==
  CASE kind = "ping" -> PingCauses
    [] kind = "dns" -> DNSCauses
    [] OTHER -> HTTPCauses

\* executeRealPing: the message of the Result (a ping Result has no error code)
PingMessage(cause) ==
  CASE cause = "ok" -> "Ping successful"
    [] cause = "ENOTFOUND" -> "Unknown host - DNS resolution failed"
    [] cause = "ENETUNREACH" -> "Network unreachable"
    [] cause = "ETIMEDOUT" -> "Ping timeout - no response received"
    [] OTHER -> "Ping failed"

\* executeRealDNSLookup (catch): errorCode from error.code
DNSErrorCode(cause) ==
  CASE cause = "ENOTFOUND" -> "DOMAIN_NOT_FOUND"
    [] cause = "ETIMEOUT" -> "TIMEOUT"
    [] cause = "ECONNREFUSED" -> "CONNECTION_REFUSED"
    [] cause = "ESERVFAIL" -> "SERVER_FAILURE"
    [] cause = "ENODATA" -> "NO_DATA"
    [] cause = "nocode" -> "UNKNOWN"
    [] OTHER -> cause

\* executeRealHTTPRequest (req.on('error')): errorType from error.code
HTTPErrorType(cause) ==
  CASE cause = "ENOTFOUND" -> "DNS_ERROR"
    [] cause = "ECONNREFUSED" -> "CONNECTION_REFUSED"
    [] cause = "ETIMEDOUT" -> "CONNECTION_TIMEOUT"
    [] cause \in {"CERT_HAS_EXPIRED", "SELF_SIGNED_CERT",
                  "UNABLE_TO_VERIFY_LEAF_SIGNATURE"} -> "SSL_ERROR"
    [] cause = "HPE_INVALID_VERSION" -> "PROTOCOL_ERROR"
    [] cause = "nocode" -> "NETWORK_ERROR"
    [] OTHER -> cause

\* createPingResult / createDNSResult / createHTTPResult: the Result with the
\* id the module draws for it; timestamp is the module's Date.now()
createPingResult(target, success, message) ==
  [jobId |-> "ping_id", type |-> "ping", target |-> target,
   timestamp |-> "measured", status |-> "completed",
   result |-> [success |-> success, message |-> message]]

createDNSResult(target, success, errorCode) ==
  [jobId |-> "dns_id", type |-> "dns", target |-> target,
   timestamp |-> "measured", status |-> "completed",
   result |-> [success |-> success, errorCode |-> errorCode]]

createHTTPResult(target, success, errorType) ==
  [jobId |-> "http_id", type |-> "http", target |-> target,
   timestamp |-> "measured", status |-> "completed",
   result |-> [success |-> success, errorType |-> errorType]]

executeRealPing(target, cause) ==
  createPingResult(cleanTarget("ping", target), cause = "ok", PingMessage(cause))

executeRealDNSLookup(target, cause) ==
  IF ~isValidDomain(target)
    THEN createDNSResult(target, FALSE, "null")
    ELSE IF cause = "ok"
      THEN createDNSResult(target, TRUE, "null")
      ELSE createDNSResult(cleanTarget("dns", target), FALSE, DNSErrorCode(cause))

executeRealHTTPRequest(target, cause) ==
  IF normalizeUrl(target) = "null"
    THEN createHTTPResult(target, FALSE, "null")
    ELSE IF cause = "ok"
      THEN createHTTPResult(target, TRUE, "null")
      ELSE IF cause \in {"status_4xx", "timeout"}
        THEN createHTTPResult(target, FALSE, "null")
        ELSE createHTTPResult(target, FALSE, HTTPErrorType(cause))

\* the measurement strategy of a module
execute(kind, target, cause) ==
  CASE kind = "ping" -> executeRealPing(target, cause)
    [] kind = "dns" -> executeRealDNSLookup(target, cause)
    [] OTHER -> executeRealHTTPRequest(target, cause)

\* the strategy rejects: cleanTarget of the ping module on a target that is
\* not a string (the other strategies check the target inside their try)
Throws(kind, target) == kind = "ping" /\ target = Undefined

\* the strategy turns the target down before it measures
InvalidTarget(kind, target) ==
  \/ kind = "dns" /\ ~isValidDomain(target)
  \/ kind = "http" /\ normalizeUrl(target) = "null"

\* what can become of a measurement: "throws", "invalid" (the target is
\* turned down), or a way the network treats it (a ping of the empty target
\* fails in the ping command)
Outcomes(kind, target) ==
  IF Throws(kind, target) THEN {"throws"}
  ELSE IF InvalidTarget(kind, target) THEN {"invalid"}
  ELSE IF kind = "ping" /\ target = "" THEN {"EOTHER"}
  ELSE Causes(kind)

\* the strategy's Result, then result.jobId = job.id
StrategyResultOwnId(w, job, outcome) ==
  execute(WorkerKind(w), Field(job, "target"), outcome)
StrategyResult(w, job, outcome) ==
  [execute(WorkerKind(w), Field(job, "target"), outcome) EXCEPT !.jobId = job.id]

\* createErrorResult(job, message)
createErrorResult(w, job) ==
  [jobId |-> job.id, type |-> WorkerKind(w), target |-> Field(job, "target"),
   timestamp |-> "measured", status |-> "completed",
   result |->
     CASE WorkerKind(w) = "ping" ->
            [success |-> FALSE, message |-> "Ping failed", error |-> "thrown"]
       [] WorkerKind(w) = "dns" ->
            [success |-> FALSE, errorCode |-> "PROCESSING_ERROR", error |-> "thrown"]
       [] OTHER ->
            [success |-> FALSE, errorType |-> "PROCESSING_ERROR", error |-> "thrown"]]

\* processPingJob / processDNSJob / processHTTPJob: the sequence of Results
\* published for the job, as they are on the wire. pubOk, pubOk2: whether the
\* publish in the try block and the publish in the catch block return (TRUE)
\* or throw (FALSE)
PublishedFor(w, job, outcome, pubOk, pubOk2) ==
  IF outcome # "throws" /\ pubOk
    THEN <<toJSON(StrategyResult(w, job, outcome))>>
    ELSE IF pubOk2 THEN <<toJSON(createErrorResult(w, job))>> ELSE <<>>

\* the subject both publish calls of a process*Job method use:
\* `mmn.jobs.result.${job.id}`
ResultTopicShared(job) == <<"mmn", "jobs", "result">>
ResultTopic(job) == <<"mmn", "jobs", "result", job.id>>

\* a message whose data is not JSON text, and JSON.parse on the messages of
\* the model: it throws on that one
Malformed == [raw |-> "{"]
JSONParseThrows(msg) == "raw" \in DOMAIN msg

\* try { const job = JSON.parse(msg.data); if (job.type === 'ping') ... }
\* catch: whether the loop of worker w goes on to process the message
AcceptsParsed(w, msg) == ~JSONParseThrows(msg)
Accepts(w, msg) == ~JSONParseThrows(msg) /\ Field(msg, "type") = WorkerKind(w)

\* await this.processPingJob(job): the loop body is suspended until the job
\* has been processed; without the await the loop would be back at its
\* subscription at once
NoAwaitProcess == "idle"
AwaitProcess == "executing"

\* startJobProcessing, one iteration of the loop up to the await of the
\* measurement: a job of another type is dropped, and so is a message that
\* cannot be parsed (the catch inside the loop logs it)
WorkerReceive(w) ==
  /\ wPc[w] = "idle"
  /\ wInbox[w] # <<>>
  /\ wInbox' = [wInbox EXCEPT ![w] = Tail(@)]
  /\ IF Accepts(w, Head(wInbox[w]))
       THEN /\ wPc' = [wPc EXCEPT ![w] = AwaitProcess]
            /\ wJob' = [wJob EXCEPT ![w] = Head(wInbox[w])]
            /\ UNCHANGED dropped
       ELSE /\ dropped' = [dropped EXCEPT ![w] = Append(@, Head(wInbox[w]))]
            /\ UNCHANGED <<wPc, wJob>>
  /\ UNCHANGED <<subscribed, startVars, mgmtVars, submitted, received, processed>>

\* the measurement ends and the Result is published on mmn.jobs.result.<id>;
\* the management API's subscription receives it when it is open
WorkerFinish(w, outcome, pubOk, pubOk2) ==
  /\ wPc[w] = "executing"
  /\ outcome \in Outcomes(WorkerKind(w), Field(wJob[w], "target"))
  /\ LET out == PublishedFor(w, wJob[w], outcome, pubOk, pubOk2)
     IN  /\ resultInbox' = IF mgmtPc = "serving" THEN resultInbox \o out ELSE resultInbox
         /\ processed' = [processed EXCEPT
                            ![w] = Append(@, [job |-> wJob[w], outcome |-> outcome,
                                              published |-> out,
                                              topics |-> [k \in 1..Len(out) |->
                                                            ResultTopic(wJob[w])]])]
  /\ wPc' = [wPc EXCEPT ![w] = "idle"]
  /\ wJob' = [wJob EXCEPT ![w] = NoJob]
  /\ UNCHANGED <<subscribed, wInbox, startVars, entry, mgmtPc, natsConnection, jobResults, lstnPc,
                 lstnResult, broadcasts, responses, submitted, received, dropped>>

\* start(), the catch: setTimeout(() => this.start(), 5000) leaves the worker
\* waiting for the timer; without it the worker would have given up
AfterFailedStartGiveUp == "stopped"
AfterFailedStart == "waiting"

\* start(): connectToNATS, announceModule and the subscription of
\* startJobProcessing. connect() is awaited; once it has resolved the publish
\* of the announcement and the subscribe follow in the same turn. When the
\* server cannot be reached connect() rejects and the catch arms the timer.
WorkerConnect(w) ==
  /\ wStart[w] = "connecting"
  /\ IF busUp
       THEN /\ wStart' = [wStart EXCEPT ![w] = "running"]
            /\ announcedAt' = [announcedAt EXCEPT ![w] = now]
            /\ subscribed' = subscribed \cup {w}
       ELSE /\ wStart' = [wStart EXCEPT ![w] = AfterFailedStart]
            /\ UNCHANGED <<announcedAt, subscribed>>
  /\ UNCHANGED <<busUp, wPc, wInbox, wJob, mgmtVars, pipeHist>>

\* the timer of the catch fires, 5 s after the failure: this.start()
WorkerRetry(w) ==
  /\ wStart[w] = "waiting"
  /\ wStart' = [wStart EXCEPT ![w] = "connecting"]
  /\ UNCHANGED <<busUp, announcedAt, subscribed, wPc, wInbox, wJob, mgmtVars, pipeHist>>

\* the NATS server becomes reachable
BusRecovers ==
  /\ ~busUp
  /\ busUp' = TRUE
  /\ UNCHANGED <<wStart, announcedAt, subscribed, wPc, wInbox, wJob, mgmtVars, pipeHist>>

(***************************************************************************)
(* ManagementAPI (management-api/src/index.js)                              *)
(***************************************************************************)
\* the two copies of the entry point: index.js, and the earlier copy
EntryPoints == {"index.js", "part_000"}

\* the statements of the module that run before the class is defined:
\* index.js has this.app.use(cors(corsOptions)) there, where this is
\* module.exports and this.app is undefined, so the call throws a TypeError
\* while the module is loaded; the earlier copy has no such statement
TopLevelThrows(file) == file = "index.js"

\* node runs the statements of the module; its last ones are
\* new ManagementAPI() and api.start()
MgmtLoad ==
  /\ mgmtPc = "load"
  /\ mgmtPc' = IF TopLevelThrows(entry) THEN "crashed" ELSE "connect"
  /\ UNCHANGED <<entry, natsConnection, jobResults, resultInbox, lstnPc, lstnResult,
                 broadcasts, responses, workerVars, pipeHist>>

\* start(): connectToNATS catches a failed connect and leaves natsConnection
\* null; startResultListener then subscribes, or throws on the null
\* connection, which ends start() before app.listen
MgmtStart ==
  /\ mgmtPc = "connect"
  /\ IF busUp
       THEN natsConnection' = "open" /\ mgmtPc' = "serving"
       ELSE natsConnection' = "null" /\ mgmtPc' = "failed"
  /\ UNCHANGED <<entry, jobResults, resultInbox, lstnPc, lstnResult, broadcasts,
                 responses, workerVars, pipeHist>>

\* values of req.body.type and req.body.target
SubmitKinds == Kinds
Targets == {"8.8.8.8"}

\* POST /api/jobs: const job = {...}
NewJobCompleted(id, kind, target) ==
  [id |-> id, type |-> kind, target |-> target, timestamp |-> "submitted",
   status |-> "completed"]
NewJob(id, kind, target) ==
  [id |-> id, type |-> kind, target |-> target, timestamp |-> "submitted",
   status |-> "submitted"]

\* {...this.jobResults[jobIndex], ...result}
MergeKeepJob(job, result) == job @@ result
Merge(job, result) == result @@ job

\* this.jobResults.findIndex((j) => j.id === result.jobId); 0 stands for -1
findIndex(jobs, jobId) ==
  IF \E i \in 1..Len(jobs) : jobs[i].id = jobId
    THEN CHOOSE i \in 1..Len(jobs) :
           /\ jobs[i].id = jobId
           /\ \A k \in 1..(i - 1) : jobs[k].id # jobId
    ELSE 0

\* the update of the job list in the result listener
MergeResultOrPush(jobs, result) ==
  LET jobIndex == findIndex(jobs, result.jobId)
  IN  IF jobIndex # 0
        THEN [jobs EXCEPT ![jobIndex] = Merge(jobs[jobIndex], result)]
        ELSE Append(jobs, result)
MergeResult(jobs, result) ==
  LET jobIndex == findIndex(jobs, result.jobId)
  IN  IF jobIndex # 0
        THEN [jobs EXCEPT ![jobIndex] = Merge(jobs[jobIndex], result)]
        ELSE jobs

\* the pipeline when the management API starts serving: the workers in subs
\* are running, with the messages of inbox pending at their subscriptions
InitPipelineFrom(subs, inbox) ==
  /\ subscribed = subs
  /\ entry \in {e \in EntryPoints : ~TopLevelThrows(e)}
  /\ mgmtPc = "serving"
  /\ natsConnection = "open"
  /\ jobResults = <<>>
  /\ resultInbox = <<>>
  /\ lstnPc = "next"
  /\ lstnResult = NoResult
  /\ broadcasts = <<>>
  /\ responses = <<>>
  /\ wPc = [w \in Workers |-> "idle"]
  /\ wInbox = inbox
  /\ wJob = [w \in Workers |-> NoJob]
  /\ wStart = [w \in Workers |-> IF w \in subs THEN "running" ELSE "off"]
  /\ busUp = TRUE
  /\ announcedAt = [w \in Workers |-> IF w \in subs THEN 0 ELSE -1]
  /\ submitted = <<>>
  /\ received = <<>>
  /\ processed = [w \in Workers |-> <<>>]
  /\ dropped = [s \in Workers \cup {Listener} |-> <<>>]

NoMessages == [w \in Workers |-> <<>>]

InitPipelineWith(subs) == InitPipelineFrom(subs, NoMessages)

\* no worker module running
InitPipeline == InitPipelineWith({})

\* POST /api/jobs, the catch: the job list after a publish that threw
AfterFailedPublishPush(jobs, job) == Append(jobs, job)
AfterFailedPublish(jobs, job) == jobs

\* POST /api/jobs. generateJobId draws the id; publish is synchronous in the
\* client, so the push and the response follow it in the same turn of the
\* event loop. pubOk: whether natsConnection.publish returns or throws; on a
\* natsConnection that is null the call throws.
Submit(id, kind, target, d, pubOk) ==
  /\ mgmtPc = "serving"
  /\ Len(responses) < MaxSubmits
  /\ LET job == NewJob(id, kind, target)
     IN  IF pubOk /\ natsConnection = "open"
           THEN /\ wInbox' = Deliver(wInbox, d, toJSON(job))
                /\ jobResults' = Append(jobResults, job)
                /\ responses' = Append(responses, [success |-> TRUE, jobId |-> job.id])
                /\ submitted' = Append(submitted, toJSON(job))
           ELSE /\ responses' = Append(responses, [success |-> FALSE])
                /\ jobResults' = AfterFailedPublish(jobResults, job)
                /\ UNCHANGED <<wInbox, submitted>>
  /\ UNCHANGED <<entry, mgmtPc, natsConnection, resultInbox, lstnPc, lstnResult, broadcasts,
                 subscribed, wPc, wJob, startVars, received, processed, dropped>>

\* await this.storage.saveMeasurement(result): the loop body is suspended
\* until the call returns; without the await the loop would be back at its
\* subscription at once
NoAwaitSave == "next"
AwaitSave == "saving"

\* the try/catch of startResultListener is inside the for-await loop: after
\* an error the loop waits for the next message; around the loop it would
\* have ended the listener
AfterParseErrorStop == "stopped"
AfterParseError == "next"

\* startResultListener, one iteration up to the await of saveMeasurement:
\* JSON.parse, the update of jobResults, and loadAll. When JSON.parse throws,
\* the catch inside the loop logs the error and the loop takes the next message
ListenerTake ==
  /\ lstnPc = "next"
  /\ resultInbox # <<>>
  /\ resultInbox' = Tail(resultInbox)
  /\ IF JSONParseThrows(Head(resultInbox))
       THEN /\ dropped' = [dropped EXCEPT ![Listener] = Append(@, Head(resultInbox))]
            /\ lstnPc' = AfterParseError
            /\ UNCHANGED <<lstnResult, jobResults, received>>
       ELSE /\ lstnResult' = Head(resultInbox)
            /\ jobResults' = MergeResult(jobResults, Head(resultInbox))
            /\ received' = Append(received, Head(resultInbox))
            /\ lstnPc' = AwaitSave
            /\ UNCHANGED dropped
  /\ UNCHANGED <<entry, mgmtPc, natsConnection, broadcasts, responses, workerVars,
                 submitted, processed>>

\* what follows the await of saveMeasurement, whose return value (saved) is
\* not looked at: broadcastToWebSocket({type: "job_result", data: result})
BroadcastIfSaved(sent, result, saved) == IF saved THEN Append(sent, result) ELSE sent
Broadcast(sent, result, saved) == Append(sent, result)

\* the rest of the iteration: await this.storage.saveMeasurement(result),
\* then the broadcast
ListenerSave(readOk, written) ==
  /\ lstnPc = "saving"
  /\ DoSave(lstnResult, readOk, written)
  /\ broadcasts' = Broadcast(broadcasts, lstnResult,
                             saveMeasurement(files, lstnResult, nextMeasId, readOk, written).ret)
  /\ lstnPc' = "next"
  /\ lstnResult' = NoResult
  /\ UNCHANGED <<entry, mgmtPc, natsConnection, jobResults, resultInbox, responses,
                 workerVars, pipeHist>>

(***************************************************************************)
(* Specification of the store: sequential appends and concurrent exports   *)
(* on a readable and writable data directory, which an earlier run of the  *)
(* process may have filled.                                                 *)
(***************************************************************************)
InitStore == InitStoreFiles /\ InitAnchor /\ InitPipeline

StoreSave ==
  /\ \E result \in StoreResults : SaveMeasurement(result, TRUE, "ok")
  /\ UNCHANGED <<anchorVars, mgmtVars, workerVars, pipeHist>>

StoreExportRead ==
  /\ \E f \in ExportNames : ExportRead(f, TRUE)
  /\ UNCHANGED <<anchorVars, mgmtVars, workerVars, pipeHist>>

StoreExportWrite ==
  /\ ExportWrite("ok")
  /\ UNCHANGED <<anchorVars, mgmtVars, workerVars, pipeHist>>

StoreStats ==
  /\ GetStats(TRUE)
  /\ UNCHANGED <<anchorVars, mgmtVars, workerVars, pipeHist>>

NextStore == StoreSave \/ StoreExportRead \/ StoreExportWrite \/ StoreStats

SpecStore == InitStore /\ [][NextStore]_vars

(***************************************************************************)
(* The store with exports under every filename the export endpoint passes  *)
(* on, and with reads and writes of the export that may fail. The filename  *)
(* of POST /api/storage/export is req.body.filename as it comes, joined to  *)
(* the data directory.                                                      *)
(***************************************************************************)
\* path.join(this.storageDir, filename) for the filenames of a request
RequestFilenames == ExportNames \cup {resultsFile}

ExportAnyRead ==
  /\ \E f \in RequestFilenames, readOk \in BOOLEAN : ExportRead(f, readOk)
  /\ UNCHANGED <<anchorVars, mgmtVars, workerVars, pipeHist>>

ExportAnyWrite ==
  /\ \E written \in WriteOutcomes : ExportWrite(written)
  /\ UNCHANGED <<anchorVars, mgmtVars, workerVars, pipeHist>>

NextExport == StoreSave \/ ExportAnyRead \/ ExportAnyWrite

\* the data directory after init() on a fresh installation: an empty log
InitExport == InitStoreWith(0) /\ InitAnchor /\ InitPipeline

SpecExport == InitExport /\ [][NextExport]_vars

(***************************************************************************)
(* Specification of the anchor service                                      *)
(***************************************************************************)
UnchangedStore == UNCHANGED <<storeVars, storeHist, mgmtVars, workerVars, pipeHist>>

InitIdleStore == InitStoreWith(0)

InitAnchorSpec == InitAnchor /\ InitIdleStore /\ InitPipeline

AnchorConnects == (\E ok \in BOOLEAN : AnchorConnect(ok)) /\ UnchangedStore
AnchorReceives == (\E name \in ModuleNames : AnchorReceive(name)) /\ UnchangedStore
AnchorLoopExit == AnchorLoopEnds /\ UnchangedStore
AnchorSweeps == AnchorSweep /\ UnchangedStore
AnchorTick == Tick /\ UnchangedStore

NextAnchor ==
  AnchorConnects \/ AnchorReceives \/ AnchorLoopExit \/ AnchorSweeps \/ AnchorTick

SpecAnchor == InitAnchorSpec /\ [][NextAnchor]_vars

(***************************************************************************)
(* Specification of the pipeline: dispatcher, workers, result listener and *)
(* store, once every process has connected and subscribed. Publishes and   *)
(* file operations may fail, and so may the measurements.                  *)
(***************************************************************************)
\* the measurements of the pipeline succeed or fail on an unknown host
PipeOutcomes == {"ok", "ENOTFOUND"}

Init ==
  /\ InitIdleStore
  /\ InitAnchor
  /\ \E subs \in Deployments : InitPipelineWith(subs)

PipeSubmit ==
  /\ \E id \in JobIds, kind \in SubmitKinds, target \in Targets,
        d \in Deliveries(subscribed), pubOk \in BOOLEAN :
          Submit(id, kind, target, d, pubOk)
  /\ UNCHANGED <<storeVars, storeHist, anchorVars>>

PipeWorkerReceive ==
  /\ \E w \in subscribed : WorkerReceive(w)
  /\ UNCHANGED <<storeVars, storeHist, anchorVars>>

PipeWorkerFinish ==
  /\ \E w \in subscribed, outcome \in PipeOutcomes, pubOk \in BOOLEAN, pubOk2 \in BOOLEAN :
        WorkerFinish(w, outcome, pubOk, pubOk2)
  /\ UNCHANGED <<storeVars, storeHist, anchorVars>>

PipeListenerTake ==
  /\ ListenerTake
  /\ UNCHANGED <<storeVars, storeHist, anchorVars>>

PipeListenerSave ==
  /\ \E readOk \in BOOLEAN, written \in WriteOutcomes : ListenerSave(readOk, written)
  /\ UNCHANGED anchorVars

Next ==
  PipeSubmit \/ PipeWorkerReceive \/ PipeWorkerFinish \/ PipeListenerTake
    \/ PipeListenerSave

Spec == Init /\ [][Next]_vars

(***************************************************************************)
(* The pipeline with a bus that delivers every message and a data          *)
(* directory that can be read and written. Every worker loop and the       *)
(* result listener take their next step when they have one: a measurement  *)
(* ends within its timeout, a pending message is handed to its for-await   *)
(* loop.                                                                    *)
(***************************************************************************)
LiveSubmit ==
  /\ \E id \in JobIds, kind \in SubmitKinds, target \in Targets,
        d \in Deliveries(subscribed) : Submit(id, kind, target, d, TRUE)
  /\ UNCHANGED <<storeVars, storeHist, anchorVars>>

LiveWorkerFinish ==
  /\ \E w \in subscribed, outcome \in PipeOutcomes : WorkerFinish(w, outcome, TRUE, TRUE)
  /\ UNCHANGED <<storeVars, storeHist, anchorVars>>

LiveListenerSave ==
  /\ ListenerSave(TRUE, "ok")
  /\ UNCHANGED anchorVars

NextLive ==
  LiveSubmit \/ PipeWorkerReceive \/ LiveWorkerFinish \/ PipeListenerTake
    \/ LiveListenerSave

SpecLive ==
  /\ Init
  /\ [][NextLive]_vars
  /\ WF_vars(PipeWorkerReceive)
  /\ WF_vars(LiveWorkerFinish)
  /\ WF_vars(PipeListenerTake)
  /\ WF_vars(LiveListenerSave)

(***************************************************************************)
(* The start of the processes: the worker modules of a deployment and the  *)
(* management API start while the NATS server is reachable or not; a       *)
(* server that is down may become reachable. A start sequence takes its     *)
(* next step when it has one: a connect attempt ends, an armed timer fires. *)
(***************************************************************************)
InitProcesses ==
  /\ InitIdleStore
  /\ InitAnchor
  /\ subscribed = {}
  /\ natsConnection = "null"
  /\ jobResults = <<>>
  /\ resultInbox = <<>>
  /\ lstnPc = "next"
  /\ lstnResult = NoResult
  /\ broadcasts = <<>>
  /\ responses = <<>>
  /\ wPc = [w \in Workers |-> "idle"]
  /\ wInbox = NoMessages
  /\ wJob = [w \in Workers |-> NoJob]
  /\ \E subs \in Deployments :
        wStart = [w \in Workers |-> IF w \in subs THEN "connecting" ELSE "off"]
  /\ announcedAt = [w \in Workers |-> -1]
  /\ submitted = <<>>
  /\ received = <<>>
  /\ processed = [w \in Workers |-> <<>>]
  /\ dropped = [s \in Workers \cup {Listener} |-> <<>>]

\* the processes once their modules are loaded, with the server up or down
InitStartup ==
  /\ InitProcesses
  /\ entry \in {e \in EntryPoints : ~TopLevelThrows(e)}
  /\ mgmtPc = "connect"
  /\ busUp \in BOOLEAN

StartupWorkerConnect(w) ==
  WorkerConnect(w) /\ UNCHANGED <<storeVars, storeHist, anchorVars>>

StartupWorkerRetry(w) ==
  WorkerRetry(w) /\ UNCHANGED <<storeVars, storeHist, anchorVars>>

StartupBusRecovers == BusRecovers /\ UNCHANGED <<storeVars, storeHist, anchorVars>>

StartupMgmtStart == MgmtStart /\ UNCHANGED <<storeVars, storeHist, anchorVars>>

NextStartup ==
  \/ \E w \in Workers : StartupWorkerConnect(w)
  \/ \E w \in Workers : StartupWorkerRetry(w)
  \/ StartupBusRecovers
  \/ StartupMgmtStart
  \/ AnchorTick

SpecStartup ==
  /\ InitStartup
  /\ [][NextStartup]_vars
  /\ \A w \in Workers : WF_vars(StartupWorkerConnect(w))
  /\ \A w \in Workers : WF_vars(StartupWorkerRetry(w))
  /\ WF_vars(StartupMgmtStart)

(***************************************************************************)
(* The management API from the moment node loads its entry point, from     *)
(* either copy of the file, with the NATS server reachable; then the       *)
(* fault-free pipeline.                                                     *)
(***************************************************************************)
InitEntry ==
  /\ InitProcesses
  /\ entry \in EntryPoints
  /\ mgmtPc = "load"
  /\ busUp = TRUE

EntryLoad == MgmtLoad /\ UNCHANGED <<storeVars, storeHist, anchorVars>>

NextEntry ==
  \/ EntryLoad
  \/ StartupMgmtStart
  \/ \E w \in Workers : StartupWorkerConnect(w)
  \/ LiveSubmit
  \/ PipeWorkerReceive
  \/ LiveWorkerFinish
  \/ PipeListenerTake
  \/ LiveListenerSave

SpecEntry == InitEntry /\ [][NextEntry]_vars

(***************************************************************************)
(* The result listener and the store, with saveMeasurement taken step by   *)
(* step: Results arrive at the subscription at any time, also while a save  *)
(* is waiting for the file system. The data directory can be read and       *)
(* written and may have been filled by an earlier run.                      *)
(***************************************************************************)
\* a worker's Result arrives at the subscription mmn.jobs.result.>
AppendArrive ==
  /\ Len(received) + Len(resultInbox) < MaxAppends
  /\ \E result \in StoreResults : resultInbox' = Append(resultInbox, result)
  /\ UNCHANGED <<storeVars, storeHist, anchorVars, entry, mgmtPc, natsConnection, jobResults,
                 lstnPc, lstnResult, broadcasts, responses, workerVars, pipeHist>>

\* the listener takes the next Result and calls saveMeasurement
AppendTake ==
  /\ ListenerTake
  /\ SaveCall(Head(resultInbox))
  /\ UNCHANGED anchorVars

AppendRead ==
  /\ \E i \in 1..Len(saves) : SaveRead(i, TRUE)
  /\ UNCHANGED <<anchorVars, mgmtVars, workerVars, pipeHist>>

\* the save returns and the iteration that awaited it goes on: broadcast, and
\* back to the subscription
AppendWrite ==
  /\ \E i \in 1..Len(saves) :
        /\ SaveWrite(i, "ok")
        /\ broadcasts' = Broadcast(broadcasts, saves[i].result, TRUE)
  /\ lstnPc' = "next"
  /\ lstnResult' = NoResult
  /\ UNCHANGED <<anchorVars, entry, mgmtPc, natsConnection, jobResults, resultInbox, responses,
                 workerVars, pipeHist>>

NextAppend == AppendArrive \/ AppendTake \/ AppendRead \/ AppendWrite

SpecAppend == InitStore /\ [][NextAppend]_vars

(***************************************************************************)
(* The store from its construction: init() runs beside the result listener *)
(* and its saves, on a data directory that is missing or that an earlier   *)
(* run has left with a log. File operations succeed where the directory    *)
(* exists.                                                                  *)
(***************************************************************************)
MaxOld == 2

NoFiles == [f \in {} |-> NoData]

\* new JSONStorage(): init() has been called and awaits fs.mkdir
InitConstructed ==
  /\ initPc = "mkdir"
  /\ \/ files = NoFiles /\ appended = <<>> /\ nextMeasId = 1
     \/ \E n \in 0..MaxOld :
          files = (resultsFile :> Prefill(n)) /\ appended = Prefill(n) /\ nextMeasId = n + 1
  /\ exportPc = "idle"
  /\ exportData = NoData
  /\ exportName = "none"
  /\ lastReturn = "none"
  /\ stats = NoStats
  /\ saves = <<>>
  /\ saveCount = <<>>
  /\ saveCalls = 0
  /\ recentAtRead = NoData
  /\ exportedAs = <<>>

InitStart == InitConstructed /\ InitAnchor /\ InitPipeline

StartMkdir == InitMkdir /\ UNCHANGED <<anchorVars, mgmtVars, workerVars, pipeHist>>
StartAccess == InitAccess /\ UNCHANGED <<anchorVars, mgmtVars, workerVars, pipeHist>>
StartWrite == InitWrite /\ UNCHANGED <<anchorVars, mgmtVars, workerVars, pipeHist>>

\* the save returns (false when the directory is not there yet) and the
\* iteration that awaited it goes on
StartSaveWrite ==
  /\ \E i \in 1..Len(saves) :
        /\ SaveWrite(i, IF DirExists THEN "ok" ELSE "refused")
        /\ broadcasts' = Broadcast(broadcasts, saves[i].result, DirExists)
  /\ lstnPc' = "next"
  /\ lstnResult' = NoResult
  /\ UNCHANGED <<anchorVars, entry, mgmtPc, natsConnection, jobResults, resultInbox, responses,
                 workerVars, pipeHist>>

NextStart ==
  StartMkdir \/ StartAccess \/ StartWrite \/ AppendArrive \/ AppendTake \/ AppendRead
    \/ StartSaveWrite

SpecStart == InitStart /\ [][NextStart]_vars

(***************************************************************************)
(* The pipeline after a restart of the management API: this.jobResults is  *)
(* kept in memory only and starts empty, while a job the previous run      *)
(* published is still pending at the workers, which kept running.          *)
(***************************************************************************)
StaleJobId == "j0"

StaleJobs == {toJSON(NewJob(StaleJobId, kind, "8.8.8.8")) : kind \in SubmitKinds}

InitRestart ==
  /\ InitIdleStore
  /\ InitAnchor
  /\ \E subs \in Deployments :
       \E d \in Deliveries(subs), job \in StaleJobs :
          InitPipelineFrom(subs, Deliver(NoMessages, d, job))

SpecRestart == InitRestart /\ [][NextLive]_vars

(***************************************************************************)
(* The dispatcher and the workers on every request body the handler        *)
(* accepts and every way a measurement can end: the kind may be one no      *)
(* module processes, the target may be empty or missing.                    *)
(***************************************************************************)
RequestKinds == Kinds \cup {"traceroute"}
RequestTargets == {"8.8.8.8", "www.example.com", "", Undefined}

AllOutcomes == PingCauses \cup DNSCauses \cup HTTPCauses \cup {"invalid", "throws"}

DispatchSubmit ==
  /\ \E id \in JobIds, kind \in RequestKinds, target \in RequestTargets,
        d \in Deliveries(subscribed), pubOk \in BOOLEAN :
          Submit(id, kind, target, d, pubOk)
  /\ UNCHANGED <<storeVars, storeHist, anchorVars>>

DispatchWorkerFinish ==
  /\ \E w \in subscribed, outcome \in AllOutcomes : WorkerFinish(w, outcome, TRUE, TRUE)
  /\ UNCHANGED <<storeVars, storeHist, anchorVars>>

NextDispatch == DispatchSubmit \/ PipeWorkerReceive \/ DispatchWorkerFinish

SpecDispatch == Init /\ [][NextDispatch]_vars

(***************************************************************************)
(* The fault-free pipeline with a publisher outside the system that may    *)
(* put data on mmn.jobs.result.<id> that is not JSON.                       *)
(***************************************************************************)
MaxMalformed == 1

CountOf(seq, msg) == Cardinality({i \in 1..Len(seq) : seq[i] = msg})

\* a message on mmn.jobs.result.* that JSON.parse does not accept
ForeignResult ==
  /\ mgmtPc = "serving"
  /\ CountOf(resultInbox, Malformed) + CountOf(dropped[Listener], Malformed) < MaxMalformed
  /\ resultInbox' = Append(resultInbox, Malformed)
  /\ UNCHANGED <<entry, mgmtPc, natsConnection, jobResults, lstnPc, lstnResult, broadcasts,
                 responses, workerVars, pipeHist>>

ListenerForeignResult ==
  /\ ForeignResult
  /\ UNCHANGED <<storeVars, storeHist, anchorVars>>

NextListener ==
  LiveSubmit \/ PipeWorkerReceive \/ LiveWorkerFinish \/ PipeListenerTake
    \/ LiveListenerSave \/ ListenerForeignResult

SpecListener == Init /\ [][NextListener]_vars

(***************************************************************************)
(* One ping, one dns and one http module subscribed side by side, each in  *)
(* the queue group of its kind, so that every message on mmn.jobs.submit    *)
(* reaches all three. Beside the jobs of the management API, a publisher    *)
(* outside the system may put data on the subject that is not JSON. The     *)
(* bus delivers and every publish succeeds.                                 *)
(***************************************************************************)
OneOfEachKind == {"ping-1", "dns-1", "http-1"}

InitKinds == InitIdleStore /\ InitAnchor /\ InitPipelineWith(OneOfEachKind)

\* a message on mmn.jobs.submit that no JSON.parse accepts
ForeignPublish(d) ==
  /\ \A w \in d : CountOf(wInbox[w], Malformed) + CountOf(dropped[w], Malformed) < MaxMalformed
  /\ wInbox' = Deliver(wInbox, d, Malformed)
  /\ UNCHANGED <<subscribed, wPc, wJob, startVars, mgmtVars, pipeHist>>

\* generateJobId here draws a new id for the first job; the request bodies
\* name a target for every kind, and a ping request may come without one
KindsJobId == IF responses = <<>> THEN "j1" ELSE "j2"
KindsRequests ==
  {[type |-> kind, target |-> "8.8.8.8"] : kind \in RequestKinds}
    \cup {[type |-> "ping", target |-> Undefined]}

KindsSubmit ==
  /\ \E body \in KindsRequests, d \in Deliveries(subscribed) :
        Submit(KindsJobId, body.type, body.target, d, TRUE)
  /\ UNCHANGED <<storeVars, storeHist, anchorVars>>

KindsForeignPublish ==
  /\ \E d \in Deliveries(subscribed) : ForeignPublish(d)
  /\ UNCHANGED <<storeVars, storeHist, anchorVars>>

\* the measurement succeeds, unless the strategy throws on the target
KindsWorkerFinish ==
  /\ \E w \in subscribed, outcome \in {"ok", "throws"} :
        WorkerFinish(w, outcome, TRUE, TRUE)
  /\ UNCHANGED <<storeVars, storeHist, anchorVars>>

NextKinds == KindsSubmit \/ KindsForeignPublish \/ PipeWorkerReceive \/ KindsWorkerFinish

SpecKinds == InitKinds /\ [][NextKinds]_vars

(***************************************************************************)
(* Properties of the store                                                  *)
(***************************************************************************)
\* the persisted log, as loadAll reads it from a readable directory
log == loadAll(files, TRUE)

CountJob(s, j) == Cardinality({i \in 1..Len(s) : s[i].jobId = j})

\* C1: after any sequence of saveMeasurement calls the persisted log holds at
\* most 1000 records and is exactly the most recent min(n, 1000) appended
\* records, newest first: an append to a full log puts the new record at the
\* head and drops the oldest.
C1_LogIsNewestCapped ==
  /\ Len(log) <= MaxRecords
  /\ log = Slice0(appended, MaxRecords)

\* an append went into a full log: the oldest record is gone, the new one leads
C1_Witness_Evicted ==
  /\ saveCalls >= 1
  /\ Len(appended) > MaxRecords
  /\ Len(log) = MaxRecords
  /\ log[1] = appended[1]
  /\ log[MaxRecords] = appended[MaxRecords]

\* C8: the store does not deduplicate: below the cap every successful append
\* adds one record, so the records of a jobId number as many as the appends of
\* that jobId, the same payload appended twice giving two records.
C8_NoDeduplication ==
  Len(appended) <= MaxRecords =>
    \A j \in JobIds : CountJob(log, j) = SavesOf(saveCount, j)

\* the same payload was appended twice below the cap and is stored twice
C8_Witness_TwoCopies ==
  /\ Len(appended) <= MaxRecords
  /\ SavesOf(saveCount, "j1") = 2
  /\ CountJob(log, "j1") = 2
  /\ \E i, k \in 1..Len(log) :
        i # k /\ Payload(log[i]) = Payload(log[k]) /\ log[i].jobId = "j1"

\* C10: the file exportToFile wrote holds what getRecent(1000) returned at the
\* moment the export read the log: the same records in the same order.
C10_ExportEqualsRecent ==
  \A f \in DOMAIN exportedAs : f \in DOMAIN files /\ files[f] = exportedAs[f]

\* an export of a non-empty log was written, and the log has moved on since
C10_Witness_Exported ==
  \E f \in DOMAIN exportedAs :
    /\ f \in DOMAIN files
    /\ Len(files[f]) >= MaxRecords - 1
    /\ files[f] # log


(***************************************************************************)
(* Properties of the anchor service                                         *)
(***************************************************************************)
Age(n) == now - modules[n].lastSeen

\* C2: in the running anchor service every record that is not re-announced
\* within the 30 s window is set unhealthy by the next periodic sweep: once a
\* record is older than the window plus one sweep interval it is unhealthy.
C2_SilentWorkerIsDemoted ==
  \A n \in DOMAIN modules :
    Age(n) > LivenessWindowMs + SweepIntervalMs => ~modules[n].healthy

\* C3: a sweep marks unhealthy exactly the records with now - lastSeen > 30000;
\* no record announced at most 30 s ago is ever unhealthy; and healthy goes
\* from true to false only in a sweep.
C3_SweepStep ==
  sweeps' = sweeps + 1 =>
    \A n \in DOMAIN modules :
      modules'[n].healthy = ~(now - modules[n].lastSeen > LivenessWindowMs)

C3_FreshIsHealthy ==
  \A n \in DOMAIN modules' :
    now' - modules'[n].lastSeen <= LivenessWindowMs => modules'[n].healthy

C3_DecayOnlyInSweep ==
  \A n \in DOMAIN modules :
    (modules[n].healthy /\ ~modules'[n].healthy) => sweeps' = sweeps + 1

C3_SweepMarksExactlyStale ==
  [][C3_SweepStep /\ C3_FreshIsHealthy /\ C3_DecayOnlyInSweep]_vars

\* a sweep has run over a record exactly 30 s old and left it healthy, while
\* it has marked an older one unhealthy
C3_Witness_SweptAtWindow ==
  /\ sweeps >= 1
  /\ now = nextSweep - SweepIntervalMs
  /\ \E a, b \in DOMAIN modules :
        /\ Age(a) = LivenessWindowMs /\ modules[a].healthy
        /\ Age(b) > LivenessWindowMs /\ ~modules[b].healthy

(***************************************************************************)
(* Properties of the pipeline                                               *)
(***************************************************************************)
Last(s) == s[Len(s)]

Count(s, id) == Cardinality({i \in 1..Len(s) : s[i].id = id})

\* every job a worker has finished, with what it published for it
AllProcessed ==
  UNION {{processed[w][i] : i \in 1..Len(processed[w])} : w \in Workers}

\* the results published so far under this job id, over all workers
PublishedOf(id) ==
  {r \in UNION {{e.published[k] : k \in 1..Len(e.published)} : e \in AllProcessed} :
     r.jobId = id}

\* C4: submit returns a non-empty id without waiting for a worker: in the step
\* that answers a request with success, the job is appended to the job list
\* with status 'submitted' under the id returned, and no worker has run and no
\* Result has been received in that step.
C4_SubmitStep ==
  (Len(responses') = Len(responses) + 1 /\ Last(responses').success) =>
     /\ Last(responses').jobId \in JobIds
     /\ Last(responses').jobId # ""
     /\ Len(jobResults') = Len(jobResults) + 1
     /\ Last(jobResults').id = Last(responses').jobId
     /\ Last(jobResults').status = "submitted"
     /\ processed' = processed
     /\ received' = received
     /\ wPc' = wPc

C4_SubmitReturnsAtOnce == [][C4_SubmitStep]_vars

\* submit has returned an id while the job still waits in a worker's
\* subscription and nothing has been published for that id
C4_Witness_ReturnedBeforeResult ==
  /\ responses # <<>>
  /\ Last(responses).success
  /\ PublishedOf(Last(responses).jobId) = {}
  /\ Last(jobResults).status = "submitted"
  /\ \E w \in subscribed :
        /\ wInbox[w] # <<>>
        /\ Last(wInbox[w]).id = Last(responses).jobId
        /\ Last(wInbox[w]).type = WorkerKind(w)

\* a job with this id has been published exactly once, and a worker of its
\* kind is subscribed
SubmittedOnce(id) ==
  /\ Count(submitted, id) = 1
  /\ \E i \in 1..Len(submitted), w \in subscribed :
        submitted[i].id = id /\ WorkerKind(w) = submitted[i].type

\* the log holds exactly one record for this id, and it is a Result a worker
\* published for it
StoredOnce(id) ==
  /\ CountJob(log, id) = 1
  /\ \E i \in 1..Len(log) :
        log[i].jobId = id /\ Payload(log[i]) \in PublishedOf(id)

\* C5: with a healthy bus and a writable data directory, a job submitted once
\* whose kind has a subscribed worker leads to a log that holds exactly one
\* record with its id, carrying the Result (and its success value) that the
\* worker published.
C5_SubmittedIsStored ==
  \A id \in JobIds : SubmittedOnce(id) ~> StoredOnce(id)

\* a job submitted once is in the log with the success value published for it
C5_Witness_Stored ==
  \E id \in JobIds :
    /\ SubmittedOnce(id)
    /\ StoredOnce(id)
    /\ \E i \in 1..Len(log) : log[i].jobId = id /\ log[i].result.success

\* jobs of one kind and id: published, pending at, executing on, and
\* completed by the instances of that kind
SubmittedJobs(kind, id) ==
  Cardinality({i \in 1..Len(submitted) :
                 submitted[i].type = kind /\ submitted[i].id = id})

PendingAt(w, kind, id) ==
  Cardinality({i \in 1..Len(wInbox[w]) :
                 wInbox[w][i].type = kind /\ wInbox[w][i].id = id})

ExecutingAt(w, kind, id) ==
  IF wPc[w] = "executing" /\ wJob[w].type = kind /\ wJob[w].id = id THEN 1 ELSE 0

ProcessedAt(w, kind, id) ==
  Cardinality({i \in 1..Len(processed[w]) :
                 processed[w][i].job.type = kind /\ processed[w][i].job.id = id})

\* C6: with two instances of the http worker subscribed, every published http
\* job is pending at, executing on, or completed by exactly one of the two:
\* none is processed by both, and when nothing is pending or executing the
\* two instances together have processed as many jobs as were submitted.
C6_OneInstancePerJob ==
  {"http-1", "http-2"} \subseteq subscribed =>
    \A id \in JobIds :
      SubmittedJobs("http", id) =
          PendingAt("http-1", "http", id) + PendingAt("http-2", "http", id)
        + ExecutingAt("http-1", "http", id) + ExecutingAt("http-2", "http", id)
        + ProcessedAt("http-1", "http", id) + ProcessedAt("http-2", "http", id)

\* two http jobs were submitted, each instance has processed one of them and
\* nothing is left
C6_Witness_BothInstancesWorked ==
  /\ {"http-1", "http-2"} \subseteq subscribed
  /\ Len(processed["http-1"]) = 1
  /\ Len(processed["http-2"]) = 1
  /\ Len(submitted) = 2
  /\ \A w \in subscribed : wInbox[w] = <<>> /\ wPc[w] = "idle"

\* C7: a worker publishes exactly one Result for every job it processes,
\* whether the measurement succeeds, fails or throws, and also when a publish
\* call itself throws: never zero, never two.
C7_ExactlyOneResultPerJob ==
  \A e \in AllProcessed : Len(e.published) = 1

\* the Results received for this id, in the order the listener took them
ReceivedFor(id) == SelectSeq(received, LAMBDA r : r.jobId = id)

\* C9: when several Results arrive for one id, the first job entry with that
\* id holds every field of the Result received last, and receiving Results
\* never changes the number of job entries: one per accepted submit.
C9_LastWriteWins ==
  /\ Len(jobResults) = Cardinality({i \in 1..Len(responses) : responses[i].success})
  /\ \A id \in JobIds :
        ReceivedFor(id) # <<>> =>
          /\ findIndex(jobResults, id) # 0
          /\ \A f \in DOMAIN Last(ReceivedFor(id)) :
                jobResults[findIndex(jobResults, id)][f] = Last(ReceivedFor(id))[f]

\* two Results that differ have been received for one id, and the entry
\* shows the later one
C9_Witness_SecondResultWon ==
  \E id \in JobIds :
    /\ Len(ReceivedFor(id)) = 2
    /\ ReceivedFor(id)[1].result.success # ReceivedFor(id)[2].result.success
    /\ jobResults[findIndex(jobResults, id)].result.success = ReceivedFor(id)[2].result.success

\* every Result a worker has published, as it is on the wire
AllPublished ==
  UNION {{e.published[k] : k \in 1..Len(e.published)} : e \in AllProcessed}

\* C11: a stored record preserves the received Result: it has every field of
\* a Result a worker published (jobId, type, target, timestamp, status and the
\* nested result with success and the error code) with the same value, and
\* beyond them only the store's own metadata fields.
C11_StoredPreservesResult ==
  \A i \in 1..Len(log) :
    \E r \in AllPublished :
      /\ DOMAIN log[i] = (DOMAIN r) \cup {"persisted", "measId"}
      /\ \A f \in DOMAIN r : log[i][f] = r[f]
      /\ log[i].persisted

\* a DNS lookup of an unknown domain is in the log with its error code
C11_Witness_DomainNotFoundStored ==
  \E i \in 1..Len(log) :
    /\ log[i].type = "dns"
    /\ log[i].jobId \in JobIds
    /\ ~log[i].result.success
    /\ log[i].result.errorCode = "DOMAIN_NOT_FOUND"

\* the request body is one the dispatcher is to accept
ValidRequest(job) ==
  /\ Field(job, "type") \in Kinds
  /\ Field(job, "target") \notin {"", Undefined}

\* C12: submit rejects a request whose kind is not one of ping, dns, http and
\* a request whose target is empty: no such job is published on
\* mmn.jobs.submit and none is recorded in the job list.
C12_InvalidRequestRejected ==
  /\ \A i \in 1..Len(submitted) : ValidRequest(submitted[i])
  /\ \A i \in 1..Len(jobResults) : ValidRequest(jobResults[i])

\* C13: when publishing the job fails, submit reports failure, the job is not
\* added to the job list, and the publish is not retried: a job is published
\* only in the step of a submit that answers with success, and a submit that
\* answers with failure leaves the job list, the bus and the workers'
\* subscriptions as they were.
C13_SubmitStep ==
  /\ submitted' # submitted =>
        /\ Len(responses') = Len(responses) + 1
        /\ Last(responses').success
        /\ Len(submitted') = Len(submitted) + 1
  /\ (Len(responses') = Len(responses) + 1 /\ ~Last(responses').success) =>
        /\ jobResults' = jobResults
        /\ submitted' = submitted
        /\ wInbox' = wInbox
  /\ (Len(responses') = Len(responses) + 1 /\ submitted' = submitted) =>
        ~Last(responses').success

C13_FailedPublishIsReported == [][C13_SubmitStep]_vars

\* a submit failed and a later one succeeded: one job recorded, one published
C13_Witness_FailedThenAccepted ==
  /\ Len(responses) = 2
  /\ ~responses[1].success
  /\ responses[2].success
  /\ Len(jobResults) = 1
  /\ Len(submitted) = 1

\* C15: a Result whose jobId matches no job of the job list is still appended
\* to the store and broadcast, and creates no entry in the job list: the
\* listener's step that takes such a Result leaves the list as it is and goes
\* on to the save, and the step that ends the iteration puts the record at the
\* head of the log and sends the Result to the WebSocket clients.
Miss(result) == findIndex(jobResults, result.jobId) = 0

C15_ListenerStep ==
  /\ (received' # received /\ Miss(Last(received'))) =>
        /\ jobResults' = jobResults
        /\ lstnPc' = "saving"
        /\ lstnResult' = Last(received')
  /\ (lstnPc = "saving" /\ lstnPc' = "next" /\ Miss(lstnResult)) =>
        /\ log' = Slice0(Unshift(log, Measurement(lstnResult, nextMeasId)), MaxRecords)
        /\ broadcasts' = Append(broadcasts, lstnResult)
        /\ jobResults' = jobResults

C15_UncorrelatedResultIsKept == [][C15_ListenerStep]_vars

\* the Result of the stale job went through: stored and broadcast, and the
\* job list has no entry for it
C15_Witness_StaleResultKept ==
  /\ \E i \in 1..Len(broadcasts) : broadcasts[i].jobId = StaleJobId
  /\ \E i \in 1..Len(log) : log[i].jobId = StaleJobId
  /\ \A i \in 1..Len(jobResults) : jobResults[i].id # StaleJobId
  /\ Len(jobResults) = 1

\* C16: when saveMeasurement fails (returns false) the Result is still
\* broadcast and the listener goes on to the next Result: the step in which a
\* save returns false sends the Result in hand to the WebSocket clients and
\* puts the listener back at its subscription, with the Results that wait
\* there untouched.
C16_FailedSaveStep ==
  (lstnPc = "saving" /\ saveCalls' = saveCalls + 1 /\ lastReturn' = "false") =>
    /\ broadcasts' = Append(broadcasts, lstnResult)
    /\ lstnPc' = "next"
    /\ resultInbox' = resultInbox

C16_FailedSaveStillBroadcasts == [][C16_FailedSaveStep]_vars

\* the first save failed and its Result was broadcast; the listener then took
\* the next Result, saved and broadcast it
C16_Witness_NextResultProcessed ==
  /\ saveCalls = 2
  /\ Len(appended) = 1
  /\ lastReturn = "true"
  /\ Len(received) = 2
  /\ broadcasts = received

\* C17: appends are serialized: of the Results that have arrived, at most one
\* saveMeasurement call is between its read and its return at any time (the
\* listener is suspended for as long), so no update is lost and the cap is
\* applied once per append: the log is the first 1000 of the records written,
\* newest first, and holds one more record per completed save until it is full.
C17_AppendsAreSerialized ==
  /\ Len(saves) <= 1
  /\ lstnPc = "next" <=> saves = <<>>
  /\ log = Slice0(appended, MaxRecords)
  /\ Len(log) = Min(Len(appended), MaxRecords)
  /\ \A i \in 1..Len(saves) : saves[i].result = lstnResult

\* a second Result has arrived and waits at the subscription while the save
\* of the first is between its read and its write, on a log that is full
C17_Witness_SecondWaitsForFirst ==
  /\ Len(saves) = 1
  /\ saves[1].pc = "write"
  /\ Len(resultInbox) >= 1
  /\ Len(log) = MaxRecords

\* C18: saveMeasurement returns true only if the new record was written as
\* the head of the persisted log, and whenever it returns false the persisted
\* log is the same as before the call.
C18_SaveStep ==
  saveCalls' = saveCalls + 1 =>
    /\ lastReturn' = "true" =>
          /\ log' # <<>>
          /\ Head(log') = Measurement(lstnResult, nextMeasId)
    /\ lastReturn' = "false" => log' = log

C18_ReturnTellsWhatWasWritten == [][C18_SaveStep]_vars

\* C19: after every saveMeasurement that returns true, the log equals the
\* first 1000 elements of the new record followed by the previous log, also
\* when reading the existing log fails during the append.
C19_SaveStep ==
  (saveCalls' = saveCalls + 1 /\ lastReturn' = "true") =>
    log' = Slice0(Unshift(log, Measurement(lstnResult, nextMeasId)), MaxRecords)

C19_AppendOnlyEvictsByCap == [][C19_SaveStep]_vars

\* C20: the queries getRecent, getByType and getByJobId return records newest
\* first, at most limit of them for every limit >= 0, only records matching
\* the filter, and an empty sequence (never an error or a value that is not a
\* sequence) when nothing matches or the log cannot be read.
NewestFirst(r) == \A i \in 1..(Len(r) - 1) : r[i].measId > r[i + 1].measId

C20_QueriesReturnSequences ==
  \A readOk \in BOOLEAN :
    /\ \A limit \in QueryLimits :
          LET r == getRecent(files, limit, readOk)
          IN  /\ Len(r) <= limit
              /\ NewestFirst(r)
              /\ ~readOk => r = <<>>
    /\ \A type \in Kinds, limit \in QueryLimits :
          LET r == getByType(files, type, limit, readOk)
          IN  /\ Len(r) <= limit
              /\ NewestFirst(r)
              /\ \A i \in 1..Len(r) : r[i].type = type
              /\ ~readOk => r = <<>>
    /\ \A jobId \in QueryJobIds :
          LET r == getByJobId(files, jobId, readOk)
          IN  /\ r.kind = "array"
              /\ NewestFirst(r.items)
              /\ \A i \in 1..Len(r.items) : r.items[i].jobId = jobId
              /\ ~readOk => r.items = <<>>

\* C14: every Result a worker publishes for a measurement that failed (host
\* unreachable, timeout, malformed target, protocol error) has success = false
\* and carries a non-empty categorized errorCode, for all three worker kinds.
C14_FailureCarriesErrorCode ==
  \A e \in AllProcessed :
    e.outcome # "ok" =>
      \A k \in 1..Len(e.published) :
        /\ ~e.published[k].result.success
        /\ "errorCode" \in DOMAIN e.published[k].result
        /\ e.published[k].result.errorCode \notin {"null", ""}

\* C21: getStats is consistent with the log: total is the number of stored
\* records, the counts of byType sum to total, each type's success count is at
\* most its count, and the success counts sum to the number of stored records
\* whose result.success is true.
RECURSIVE SumOver(_, _, _)
SumOver(f, S, field) ==
  IF S = {} THEN 0
  ELSE LET t == CHOOSE x \in S : TRUE
       IN  f[t][field] + SumOver(f, S \ {t}, field)

ConsistentWith(st, data) ==
  /\ st.total = Len(data)
  /\ SumOver(st.byType, DOMAIN st.byType, "count") = st.total
  /\ \A t \in DOMAIN st.byType : st.byType[t].success <= st.byType[t].count
  /\ SumOver(st.byType, DOMAIN st.byType, "success")
       = Cardinality({i \in 1..Len(data) : data[i].result.success})

C21_StatsStep == stats' # stats => ConsistentWith(stats', log)

C21_StatsMatchLog == [][C21_StatsStep]_vars

\* statistics taken of a full log that holds records of two types, some of
\* them failed
C21_Witness_StatsOfMixedLog ==
  /\ stats.total = MaxRecords
  /\ Cardinality(DOMAIN stats.byType) = 2
  /\ \E t \in DOMAIN stats.byType : stats.byType[t].success < stats.byType[t].count
  /\ \E t \in DOMAIN stats.byType : stats.byType[t].success > 0

\* C22: exportToFile writes to a file separate from the measurement log and
\* leaves the persisted log unchanged, for every filename argument and every
\* interleaving with a concurrent saveMeasurement: the step that writes the
\* export writes another file than measurements.json and the log is after it
\* what it was before, every append made so far included.
C22_ExportWriteStep ==
  (exportPc = "write" /\ exportPc' = "idle") =>
    /\ exportName # resultsFile
    /\ log' = log
    /\ log' = Slice0(appended, MaxRecords)

C22_ExportLeavesLogAlone == [][C22_ExportWriteStep]_vars

\* C23: exportToFile returns the null sentinel whenever an I/O step of the
\* export fails (reading the log or writing the snapshot), and returns a path
\* only when the snapshot file holds the entire log.
C23_ExportReturnStep ==
  (exportPc = "write" /\ exportPc' = "idle" /\ lastReturn' # "null") =>
    /\ exportName \in DOMAIN files'
    /\ files'[exportName] = recentAtRead

C23_PathOnlyForWholeSnapshot == [][C23_ExportReturnStep]_vars

\* C24: after handleModuleAnnouncement(record) the registry holds one record
\* for record.name, with healthy = true and lastSeen equal to the time of the
\* announcement, and the records of all other names are unchanged.
C24_AnnouncementStep ==
  (anchorPc = "listening" /\ modules' # modules) =>
    \E name \in ModuleNames :
      /\ DOMAIN modules' = DOMAIN modules \cup {name}
      /\ modules'[name] = [lastSeen |-> now, healthy |-> TRUE] @@ Announcement(name, now)
      /\ \A other \in DOMAIN modules \ {name} : modules'[other] = modules[other]

C24_AnnouncementSetsRecord == [][C24_AnnouncementStep]_vars

\* every module is registered; one was announced again now, later than the
\* others, whose records still carry their own times
C24_Witness_Reannounced ==
  /\ anchorPc = "listening"
  /\ DOMAIN modules = ModuleNames
  /\ \E a \in ModuleNames :
        /\ modules[a].lastSeen = now
        /\ \A b \in ModuleNames \ {a} : modules[b].lastSeen < now
  /\ \E b \in ModuleNames : modules[b].lastSeen = 0

\* C25: WorkerRecords are never deleted: the set of names in the registry only
\* grows, and a record that is unhealthy stays listed and unhealthy unless the
\* step is an announcement of its name.
C25_RegistryStep ==
  /\ DOMAIN modules \subseteq DOMAIN modules'
  /\ \A n \in DOMAIN modules :
        (~modules[n].healthy /\ modules'[n] # modules[n]) =>
          /\ anchorPc = "listening"
          /\ modules'[n].lastSeen = now

C25_RecordsAreNeverDeleted == [][C25_RegistryStep]_vars

\* all three modules went silent after announcing themselves at different
\* times: all are still listed, one of them unhealthy
C25_Witness_SilentStillListed ==
  /\ DOMAIN modules = ModuleNames
  /\ \E n \in ModuleNames : ~modules[n].healthy /\ modules[n].lastSeen > 0
  /\ \E n \in ModuleNames : modules[n].healthy

\* C26: health decay is one-way: a sweep never changes healthy from false to
\* true and never changes lastSeen or any other field of a record; healthy
\* becomes true only through an announcement of the same name.
C26_SweepStep ==
  sweeps' = sweeps + 1 =>
    /\ DOMAIN modules' = DOMAIN modules
    /\ \A n \in DOMAIN modules :
          /\ modules'[n].healthy => modules[n].healthy
          /\ [modules'[n] EXCEPT !.healthy = TRUE] = [modules[n] EXCEPT !.healthy = TRUE]

C26_RecoveryStep ==
  \A n \in DOMAIN modules' :
    (modules'[n].healthy /\ (n \in DOMAIN modules => ~modules[n].healthy)) =>
      /\ anchorPc = "listening"
      /\ modules'[n].lastSeen = now

C26_DecayIsOneWay == [][C26_SweepStep /\ C26_RecoveryStep]_vars

\* a record demoted by one sweep has been swept again
C26_Witness_SweptWhileUnhealthy ==
  /\ sweeps >= 5
  /\ \E n \in DOMAIN modules :
        /\ ~modules[n].healthy
        /\ Age(n) >= LivenessWindowMs + 2 * SweepIntervalMs

\* C27: each worker that keeps running and stays connected to the bus
\* publishes an announcement periodically, so that a live worker's lastSeen is
\* refreshed within every liveness window: a running worker's last
\* announcement is never older than the window.
C27_LiveWorkerKeepsAnnouncing ==
  \A w \in Workers :
    wStart[w] = "running" => now - announcedAt[w] <= LivenessWindowMs

\* C28: a worker that cannot reach the bus at startup does not exit: it runs
\* its connect sequence again after the delay, indefinitely, so once the bus
\* is reachable (and stays so) the worker eventually announces itself and
\* subscribes to mmn.jobs.submit.
C28_WorkerStartsOnceBusIsUp ==
  \A w \in Workers :
    (busUp /\ wStart[w] # "off") ~> (w \in subscribed /\ announcedAt[w] >= 0)

\* the bus was down when the workers started and is up now: one worker has
\* connected, announced itself and subscribed, the other is still waiting
\* for its timer after a failed attempt
C28_Witness_RecoveringAfterOutage ==
  /\ busUp
  /\ \E w, v \in Workers :
        /\ wStart[w] = "running" /\ w \in subscribed /\ announcedAt[w] > 0
        /\ wStart[v] = "waiting"

\* C29: bus unavailability is never fatal for the management process: when
\* the bus is unreachable at the start and reachable later, the connection is
\* retried and the result listener eventually subscribes to mmn.jobs.result.>
\* (from where on submits succeed).
C29_ManagementServesOnceBusIsUp ==
  busUp ~> (mgmtPc = "serving" /\ natsConnection = "open")

\* C30: a recorded Job is immutable except for its state: merging a Result
\* into the Job leaves its id, type, target and submission timestamp as they
\* were set at submission and changes only the status (and attaches the
\* result payload).
C30_JobFieldsAreKept ==
  /\ Len(jobResults) = Len(submitted)
  /\ \A i \in 1..Len(jobResults) :
        /\ jobResults[i].id = submitted[i].id
        /\ jobResults[i].type = submitted[i].type
        /\ jobResults[i].target = submitted[i].target
        /\ jobResults[i].timestamp = submitted[i].timestamp
        /\ jobResults[i].status \in {"submitted", "completed"}

\* C31: every Result a worker publishes for a job is published on the topic
\* mmn.jobs.result.<id of that job>, and the jobId inside the payload is that
\* job's id, never the id the strategy generated, on the success path and on
\* the error path.
PlaceholderIds == {"ping_id", "dns_id", "http_id"}

C31_ResultCarriesJobId ==
  \A e \in AllProcessed :
    \A k \in 1..Len(e.published) :
      /\ e.topics[k] = <<"mmn", "jobs", "result", e.job.id>>
      /\ e.published[k].jobId = e.job.id
      /\ e.published[k].jobId \notin PlaceholderIds

\* one job's strategy threw and its Result came from createErrorResult,
\* another job's measurement ended normally: both published
C31_Witness_BothPathsPublished ==
  /\ \E e \in AllProcessed : e.outcome = "throws" /\ Len(e.published) = 1
  /\ \E e \in AllProcessed : e.outcome = "ok" /\ Len(e.published) = 1

\* C32: a worker of kind k executes, and publishes a Result for, only jobs
\* whose type is k and whose payload parses: with one ping, one dns and one
\* http worker all subscribed, every job is executed only by the worker of
\* its own kind, a job of a kind no worker has by none, and a malformed
\* message by none.
InHand(w) ==
  {processed[w][i].job : i \in 1..Len(processed[w])}
    \cup (IF wPc[w] = "executing" THEN {wJob[w]} ELSE {})

C32_OnlyOwnKindExecuted ==
  \A w \in Workers :
    /\ \A job \in InHand(w) :
         /\ ~JSONParseThrows(job)
         /\ Field(job, "type") = WorkerKind(w)
         /\ \E i \in 1..Len(submitted) : submitted[i] = job
    /\ \A i \in 1..Len(processed[w]) :
         \A k \in 1..Len(processed[w][i].published) :
           processed[w][i].published[k].type = WorkerKind(w)

\* all three workers have taken a malformed message, a job of a kind no
\* module has and a ping job: only the ping worker published a Result, for
\* the ping job
C32_Witness_ThreeKindsOneExecutes ==
  /\ subscribed = OneOfEachKind
  /\ \A w \in OneOfEachKind : wInbox[w] = <<>> /\ wPc[w] = "idle"
  /\ \A w \in OneOfEachKind : CountOf(dropped[w], Malformed) = 1
  /\ \A w \in OneOfEachKind :
       \E i \in 1..Len(dropped[w]) : Field(dropped[w][i], "type") = "traceroute"
  /\ \E i \in 1..Len(submitted) : submitted[i].type = "ping"
  /\ Len(processed["ping-1"]) = 1
  /\ Len(processed["ping-1"][1].published) = 1
  /\ processed["dns-1"] = <<>> /\ processed["http-1"] = <<>>

\* C33: a worker instance executes at most one job at a time: it takes no job
\* from its subscription while the job before it is still in its hands, that
\* is before the Result of that job has been published or its processing has
\* failed; so the jobs an instance has processed, the one in its hands and the
\* ones waiting at its subscription follow one another in the order in which
\* they were submitted.
IsSubSeq(a, b) ==
  \E f \in [1..Len(a) -> 1..Len(b)] :
    /\ \A i \in 1..Len(a) : a[i] = b[f[i]]
    /\ \A i, k \in 1..Len(a) : i < k => f[i] < f[k]

JobsOf(w) ==
  [i \in 1..Len(processed[w]) |-> processed[w][i].job]
    \o (IF wJob[w] # NoJob THEN <<wJob[w]>> ELSE <<>>)
    \o SelectSeq(wInbox[w], LAMBDA msg : Accepts(w, msg))

C33_Step ==
  /\ \A w \in Workers :
       (wJob'[w] # wJob[w] /\ wJob'[w] # NoJob) =>
          /\ wJob[w] = NoJob
          /\ wJob'[w] = Head(wInbox[w])
          /\ processed'[w] = processed[w]
  /\ \A w \in Workers :
       Len(processed'[w]) > Len(processed[w]) =>
          /\ Len(processed'[w]) = Len(processed[w]) + 1
          /\ Last(processed'[w]).job = wJob[w]
          /\ wJob'[w] = NoJob
  /\ \A w \in Workers : IsSubSeq(JobsOf(w), submitted)'

C33_OneJobAtATime == [][C33_Step]_vars

\* a worker has published the Results of two different jobs, in the order in
\* which the two were submitted
C33_Witness_TwoJobsInOrder ==
  \E w \in Workers :
    /\ Len(processed[w]) = 2
    /\ Len(submitted) = 2
    /\ submitted[1].id # submitted[2].id
    /\ \A i \in 1..2 :
         /\ processed[w][i].job = submitted[i]
         /\ Len(processed[w][i].published) = 1
         /\ processed[w][i].published[1].jobId = submitted[i].id

\* C34: when two submissions draw the same job id the later Job replaces the
\* earlier one: the job list never holds two Jobs with one id, and a Result
\* with that id is merged into the Job submitted last.
C34_LastWriteWins ==
  /\ \A i, k \in 1..Len(jobResults) : jobResults[i].id = jobResults[k].id => i = k
  /\ \A i, k \in 1..Len(jobResults) :
       (i < k /\ jobResults[i].id = jobResults[k].id) => jobResults[i].status = "submitted"

\* C35: a Job is 'completed' only if a Result with its jobId has been
\* received; a Job for whose id no Result has been received is 'submitted',
\* for as long as none is; and a Job that is 'completed' stays 'completed'.
C35_Step ==
  /\ \A i \in 1..Len(jobResults') :
       IF \E k \in 1..Len(received') : received'[k].jobId = jobResults'[i].id
         THEN jobResults'[i].status \in {"submitted", "completed"}
         ELSE jobResults'[i].status = "submitted"
  /\ Len(jobResults') >= Len(jobResults)
  /\ \A i \in 1..Len(jobResults) :
       /\ jobResults'[i].id = jobResults[i].id
       /\ jobResults[i].status = "completed" => jobResults'[i].status = "completed"

C35_StatusFollowsResult == [][C35_Step]_vars

\* one Job has been completed by its Result; the Result of another was never
\* published, nothing is in flight any more, and that Job is 'submitted'
C35_Witness_OneCompletedOneNot ==
  /\ \E i, k \in 1..Len(jobResults) :
       /\ jobResults[i].status = "completed"
       /\ \E n \in 1..Len(received) : received[n].jobId = jobResults[i].id
       /\ jobResults[k].status = "submitted"
       /\ \A n \in 1..Len(received) : received[n].jobId # jobResults[k].id
       /\ \E e \in AllProcessed : e.job.id = jobResults[k].id /\ e.published = <<>>
  /\ resultInbox = <<>> /\ lstnPc = "next"
  /\ \A w \in subscribed : wInbox[w] = <<>> /\ wPc[w] = "idle"

\* C36: however the submit handler, which publishes the job before it
\* records it, interleaves with the result listener, no accepted Job is left
\* 'submitted' once a Result with its id has been received (and so before
\* that Result is stored).
C36_ReceivedMeansCompleted ==
  \A i \in 1..Len(jobResults) :
    (\E k \in 1..Len(received) : received[k].jobId = jobResults[i].id)
       => jobResults[i].status = "completed"

\* C37: for each well-formed Result it receives the listener performs, in
\* this order, the merge into the job list, exactly one saveMeasurement call
\* and exactly one broadcast, and it takes the next Result only after that:
\* Results are stored and broadcast in the order received, so the log, which
\* is newest-first, is the reverse of the receipt order. A Result whose
\* payload cannot be parsed is neither stored nor broadcast, and the listener
\* goes on with the next message.
Handled == IF lstnPc = "saving" THEN Len(received) - 1 ELSE Len(received)

C37_State ==
  /\ lstnPc \in {"next", "saving"}
  /\ saveCalls = Handled
  /\ Len(broadcasts) = Handled
  /\ Len(log) = Handled
  /\ \A i \in 1..Handled :
       /\ broadcasts[i] = received[i]
       /\ Payload(log[Handled + 1 - i]) = received[i]
  /\ lstnPc = "saving" =>
       /\ lstnResult = Last(received)
       /\ LET jobIndex == findIndex(jobResults, lstnResult.jobId)
          IN  jobIndex # 0 => jobResults[jobIndex].status = "completed"
  /\ \A i \in 1..Len(received) : ~JSONParseThrows(received[i])

C37_Step ==
  /\ C37_State'
  /\ dropped'[Listener] # dropped[Listener] =>
       /\ dropped'[Listener] = Append(dropped[Listener], Head(resultInbox))
       /\ JSONParseThrows(Head(resultInbox))
       /\ resultInbox' = Tail(resultInbox)
       /\ lstnPc' = "next"
       /\ UNCHANGED <<files, saveCalls, broadcasts, jobResults, received>>
  /\ received' # received =>
       /\ lstnPc = "next" /\ lstnPc' = "saving"
       /\ received' = Append(received, Head(resultInbox))
       /\ UNCHANGED <<files, saveCalls, broadcasts>>

C37_ListenerHandlesInOrder == [][C37_Step]_vars

\* the listener has dropped a message that is not JSON and has merged,
\* stored and broadcast the Results of two jobs
C37_Witness_TwoStoredAfterMalformed ==
  /\ dropped[Listener] = <<Malformed>>
  /\ Len(received) = 2 /\ lstnPc = "next"
  /\ received[1].jobId # received[2].jobId
  /\ Len(log) = 2 /\ Len(broadcasts) = 2
  /\ log[1].jobId = received[2].jobId
  /\ \A i \in 1..Len(jobResults) : jobResults[i].status = "completed"

\* C38: when the bus is reachable at process start, the start sequence of
\* the management API runs to completion, from either copy of its entry
\* point: it is never abandoned before the result listener has subscribed
\* and the dispatcher accepts submissions.
C38_StartRunsToCompletion ==
  /\ mgmtPc \in {"load", "connect", "serving"}
  /\ mgmtPc = "serving" => natsConnection = "open"

\* C39: when measurements.json exists at the construction of the store,
\* init leaves it as it is: init never writes the file it has found, and
\* every record an earlier run stored is still in the log and returned by
\* the queries.
OldRecords(s) == SelectSeq(s, LAMBDA m : m.jobId = OldResult.jobId)

C39_State ==
  OldRecords(appended) # <<>> =>
    /\ initPc # "write"
    /\ OldRecords(log) = OldRecords(appended)
    /\ OldRecords(getRecent(files, MaxRecords, TRUE)) = OldRecords(appended)
    /\ getByJobId(files, OldResult.jobId, TRUE).kind = "object"

C39_Step ==
  /\ C39_State'
  /\ (initPc' # initPc /\ initPc \in {"mkdir", "access"} /\ resultsFile \in DOMAIN files) =>
       /\ files' = files
       /\ initPc' \in {"access", "done"}

C39_InitKeepsHistory == [][C39_Step]_vars

\* init has finished on a log of two records of an earlier run, and a record
\* saved since stands in front of them
C39_Witness_HistoryAfterInit ==
  /\ initPc = "done"
  /\ Len(OldRecords(appended)) = 2
  /\ Len(log) = 3
  /\ OldRecords(log) = OldRecords(appended)

\* C40: init, which the constructor does not await, cannot undo an append:
\* however its steps interleave with a first saveMeasurement, once init has
\* finished the record of every saveMeasurement that returned true is in
\* the log.
C40_InitKeepsAppends ==
  initPc = "done" =>
    \A i \in 1..Len(appended) : \E k \in 1..Len(log) : log[k] = appended[i]
====
